---- MODULE Spec2Model ----
(***************************************************************************)
(* State-machine model of packages/voice-stt/main.py: the transcribe       *)
(* function (temporary files, ffmpeg conversion, model load, inference,    *)
(* cleanup in the finally block), warmup, the transcribe_http adapter and  *)
(* the main entry point.                                                   *)
(*                                                                         *)
(* Each statement of transcribe that touches the file system or an         *)
(* external collaborator (ffmpeg, the ASR toolkit) is one step.  External  *)
(* collaborators answer nondeterministically: ffmpeg may exit non-zero,    *)
(* from_pretrained and model.transcribe may raise, a write may fail.       *)
(***************************************************************************)
EXTENDS Integers, Sequences, FiniteSets, TLC

VARIABLES fs, inv, http, main, resident, warmups, warmup_returns

vars == <<fs, inv, http, main, resident, warmups, warmup_returns>>

----------------------------------------------------------------------------
(* Bounds *)

\* number of distinct random names tempfile can draw in the temp directory
MaxNames == 2
\* warmup calls counted up to this many
MaxWarmups == 2
\* transcribe invocations that can be in flight at once
NumInvocations == 2

----------------------------------------------------------------------------
(* Values *)

NamePool == <<"tmpk3_x9a2q", "tmp7hd0_zvb", "tmpq1w8e5rt", "tmpz0m4n6c_">>
Names == {NamePool[k] : k \in 1..MaxNames}

TmpDir == "/tmp/"
InputSuffix == ".input"
WavSuffix == ".wav"

Invocations == 1..NumInvocations
NoOwner == 0

\* a call that does not pass the optional language argument
NotPassed == "<not passed>"
DefaultLanguage == "en"
Languages == {"en", "fr"}

\* request payloads: the zero-byte payload and a non-empty one
AudioPayloads == {"", "RIFF"}

Unbound == <<>>
NoException == ""

WarmupStatus == [status |-> "warm", model |-> "parakeet-tdt-0.6b-v2"]

\* lists model.transcribe may return for one input file
TranscriptLists == {<<>>, <<"five">>, <<"five", "six">>}

\* files the command line can name: readable ones with their bytes
LocalFiles == [clip |-> "RIFF", blank |-> ""]
ArgvChoices == {<<"main.py">>, <<"main.py", "clip">>, <<"main.py", "blank">>,
                <<"main.py", "missing">>}

----------------------------------------------------------------------------
(* The temporary directory *)

Paths == {<<TmpDir, n, s>> : n \in Names, s \in {InputSuffix, WavSuffix}}

NoFile == [exists |-> FALSE, owner |-> NoOwner, format |-> "", data |-> ""]

RawFile(i, bytes) == [exists |-> TRUE, owner |-> i, format |-> "raw", data |-> bytes]

\* ffmpeg -ar 16000 -ac 1: the output is a 16 kHz mono WAV of the input
WavFile(i, bytes) == [exists |-> TRUE, owner |-> i, format |-> "wav16k1", data |-> bytes]

PartialWavFile(i) == [exists |-> TRUE, owner |-> i, format |-> "wav16k1", data |-> ""]

\* os.path.exists
PathExists(p) == p \in DOMAIN fs /\ fs[p].exists

\* str.replace(old, new): every occurrence of old is replaced
Replace(path, old, new) ==
    [k \in DOMAIN path |-> IF path[k] = old THEN new ELSE path[k]]

\* wav_path = input_path.replace(".input", ".wav")
WavPathOf(input_path) == Replace(input_path, InputSuffix, WavSuffix)

----------------------------------------------------------------------------
(* External collaborators *)

\* open(...).write / close on the temporary file: TRUE is success, FALSE an
\* OSError (for instance no space left); nothing can fail for zero bytes
WriteOutcomes(bytes) == IF bytes = "" THEN {TRUE} ELSE {TRUE, FALSE}

\* ffmpeg -i input -ar 16000 -ac 1 -y wav: the exit code and whether an output
\* file was written.  A zero-byte or missing input cannot be decoded.
FfmpegOutcomes(file) ==
    IF ~file.exists \/ file.data = ""
    THEN {[returncode |-> 1, wrote |-> FALSE]}
    ELSE {[returncode |-> 0, wrote |-> TRUE],
          [returncode |-> 1, wrote |-> FALSE],
          [returncode |-> 1, wrote |-> TRUE]}

\* ASRModel.from_pretrained: TRUE returns a model, FALSE raises
LoadOutcomes == {TRUE, FALSE}

\* model.transcribe([wav_path]): a list of transcripts, or a raised failure
InferenceFailure == <<"<raises>">>
InferenceOutcomes(wav) ==
    IF ~wav.exists THEN {InferenceFailure} ELSE TranscriptLists \cup {InferenceFailure}

----------------------------------------------------------------------------
(* transcribe *)

IdleInvocation ==
    [pc |-> "idle", via |-> "", audio_bytes |-> "", arg_language |-> NotPassed,
     language |-> "", input_file |-> Unbound, input_path |-> Unbound,
     wav_path |-> Unbound, returncode |-> -1, model |-> FALSE,
     transcribed |-> FALSE, transcriptions |-> <<>>, text |-> "",
     retval |-> Unbound, result |-> Unbound, exc |-> NoException,
     ffmpeg_runs |-> 0, load_calls |-> 0, infer_calls |-> 0, warm_seen |-> 0]

\* def transcribe(audio_bytes, language="en")
EffectiveLanguage(arg_language) ==
    IF arg_language = NotPassed THEN DefaultLanguage ELSE arg_language

\* variant: a placeholder text instead of the empty string
FirstTranscriptPlaceholder(transcriptions) ==
    IF transcriptions # <<>> THEN transcriptions[1] ELSE "[no speech]"

\* variant: the last transcript instead of the first
LastTranscript(transcriptions) ==
    IF transcriptions # <<>> THEN transcriptions[Len(transcriptions)] ELSE ""

\* text = transcriptions[0] if transcriptions else ""
FirstTranscript(transcriptions) ==
    IF transcriptions # <<>> THEN transcriptions[1] ELSE ""

\* return {"text": text, "language": language}
ResultRecord(text, language) == [text |-> text, language |-> language]

\* variant: check=True left out, the exit code is ignored
AfterFfmpegUnchecked(returncode) == "load"

\* variant: the conversion is tried again after a non-zero exit
AfterFfmpegRetry(returncode) == IF returncode = 0 THEN "load" ELSE "ffmpeg"

\* subprocess.run(..., check=True): a non-zero exit raises CalledProcessError
\* and control leaves the try block for the finally block
AfterFfmpeg(returncode) == IF returncode = 0 THEN "load" ELSE "exists_input"

\* variant: the exception is swallowed and the call returns
FinalPcSwallow(exc) == "returned"

\* how the call ends once the finally block is through: the pending
\* exception, if any, is re-raised; otherwise the return value is delivered
FinalPc(exc) == IF exc = NoException THEN "returned" ELSE "raised"

Running(i) == inv[i].pc \notin {"idle", "returned", "raised"}
Finished(i) == inv[i].pc \in {"returned", "raised"}

\* entering transcribe with the caller's arguments
Enter(i, via, audio_bytes, arg_language) ==
    inv' = [inv EXCEPT ![i] =
               [IdleInvocation EXCEPT !.pc = "mkstemp", !.via = via,
                                      !.audio_bytes = audio_bytes,
                                      !.arg_language = arg_language,
                                      !.language = EffectiveLanguage(arg_language),
                                      !.warm_seen = warmups]]

\* tempfile.NamedTemporaryFile(suffix=".input", delete=False): an exclusive
\* create under a random name that does not exist yet
Mkstemp(i) ==
    /\ inv[i].pc = "mkstemp"
    /\ LET free == {n \in Names : ~PathExists(<<TmpDir, n, InputSuffix>>)}
       IN IF free = {}
          THEN /\ inv' = [inv EXCEPT ![i].pc = "raised", ![i].exc = "FileExistsError"]
               /\ fs' = fs
          ELSE \E n \in free :
                  LET p == <<TmpDir, n, InputSuffix>>
                  IN /\ fs' = [fs EXCEPT ![p] = RawFile(i, "")]
                     /\ inv' = [inv EXCEPT ![i].pc = "write", ![i].input_file = p]
    /\ UNCHANGED <<http, main, resident, warmups, warmup_returns>>

\* input_file.write(audio_bytes); input_path = input_file.name; leaving the
\* with block closes the file; wav_path = input_path.replace(...).
\* A failed write raises out of transcribe before the try block is entered.
Write(i) ==
    /\ inv[i].pc = "write"
    /\ \E ok \in WriteOutcomes(inv[i].audio_bytes) :
          IF ok
          THEN /\ fs' = [fs EXCEPT ![inv[i].input_file] = RawFile(i, inv[i].audio_bytes)]
               /\ inv' = [inv EXCEPT ![i].pc = "ffmpeg",
                                     ![i].input_path = inv[i].input_file,
                                     ![i].wav_path = WavPathOf(inv[i].input_file)]
          ELSE /\ fs' = fs
               /\ inv' = [inv EXCEPT ![i].pc = "raised", ![i].exc = "OSError"]
    /\ UNCHANGED <<http, main, resident, warmups, warmup_returns>>

\* subprocess.run(["ffmpeg", "-i", input_path, ..., "-y", wav_path], check=True)
Ffmpeg(i) ==
    /\ inv[i].pc = "ffmpeg"
    /\ \E out \in FfmpegOutcomes(fs[inv[i].input_path]) :
          /\ fs' = IF out.wrote
                   THEN [fs EXCEPT ![inv[i].wav_path] =
                            IF out.returncode = 0
                            THEN WavFile(i, fs[inv[i].input_path].data)
                            ELSE PartialWavFile(i)]
                   ELSE fs
          /\ inv' = [inv EXCEPT ![i].pc = AfterFfmpeg(out.returncode),
                                ![i].returncode = out.returncode,
                                ![i].ffmpeg_runs = @ + 1,
                                ![i].exc = IF out.returncode = 0 THEN NoException
                                           ELSE "CalledProcessError"]
    /\ UNCHANGED <<http, main, resident, warmups, warmup_returns>>

\* model = nemo_asr.models.ASRModel.from_pretrained(...)
Load(i) ==
    /\ inv[i].pc = "load"
    /\ \E ok \in LoadOutcomes :
          /\ inv' = [inv EXCEPT ![i].pc = IF ok THEN "infer" ELSE "exists_input",
                                ![i].model = ok,
                                ![i].load_calls = @ + 1,
                                ![i].exc = IF ok THEN NoException ELSE "ModelLoadError"]
          /\ resident' = (resident \/ ok)
    /\ UNCHANGED <<fs, http, main, warmups, warmup_returns>>

\* transcriptions = model.transcribe([wav_path]); text = ...; return {...}
Infer(i) ==
    /\ inv[i].pc = "infer"
    /\ \E out \in InferenceOutcomes(fs[inv[i].wav_path]) :
          inv' = [inv EXCEPT
                    ![i].pc = "exists_input",
                    ![i].infer_calls = @ + 1,
                    ![i].transcribed = (out # InferenceFailure),
                    ![i].transcriptions = IF out = InferenceFailure THEN <<>> ELSE out,
                    ![i].text = IF out = InferenceFailure THEN ""
                                ELSE FirstTranscript(out),
                    ![i].retval = IF out = InferenceFailure THEN Unbound
                                  ELSE ResultRecord(FirstTranscript(out), inv[i].language),
                    ![i].exc = IF out = InferenceFailure THEN "InferenceError"
                               ELSE NoException]
    /\ UNCHANGED <<fs, http, main, resident, warmups, warmup_returns>>

\* finally: if os.path.exists(input_path):
ExistsInput(i) ==
    /\ inv[i].pc = "exists_input"
    /\ inv' = [inv EXCEPT ![i].pc = IF PathExists(inv[i].input_path)
                                    THEN "unlink_input" ELSE "exists_wav"]
    /\ UNCHANGED <<fs, http, main, resident, warmups, warmup_returns>>

\* os.unlink(input_path): a path that is gone raises FileNotFoundError out of
\* the finally block
UnlinkInput(i) ==
    /\ inv[i].pc = "unlink_input"
    /\ IF PathExists(inv[i].input_path)
       THEN /\ fs' = [fs EXCEPT ![inv[i].input_path] = NoFile]
            /\ inv' = [inv EXCEPT ![i].pc = "exists_wav"]
       ELSE /\ fs' = fs
            /\ inv' = [inv EXCEPT ![i].pc = "raised", ![i].exc = "FileNotFoundError"]
    /\ UNCHANGED <<http, main, resident, warmups, warmup_returns>>

\* if os.path.exists(wav_path):  -- the last statement when the path is absent
ExistsWav(i) ==
    /\ inv[i].pc = "exists_wav"
    /\ inv' = IF PathExists(inv[i].wav_path)
              THEN [inv EXCEPT ![i].pc = "unlink_wav"]
              ELSE [inv EXCEPT ![i].pc = FinalPc(inv[i].exc),
                               ![i].result = IF FinalPc(inv[i].exc) = "returned"
                                             THEN inv[i].retval ELSE Unbound]
    /\ UNCHANGED <<fs, http, main, resident, warmups, warmup_returns>>

\* os.unlink(wav_path)
UnlinkWav(i) ==
    /\ inv[i].pc = "unlink_wav"
    /\ IF PathExists(inv[i].wav_path)
       THEN /\ fs' = [fs EXCEPT ![inv[i].wav_path] = NoFile]
            /\ inv' = [inv EXCEPT ![i].pc = FinalPc(inv[i].exc),
                                  ![i].result = IF FinalPc(inv[i].exc) = "returned"
                                                THEN inv[i].retval ELSE Unbound]
       ELSE /\ fs' = fs
            /\ inv' = [inv EXCEPT ![i].pc = "raised", ![i].exc = "FileNotFoundError"]
    /\ UNCHANGED <<http, main, resident, warmups, warmup_returns>>

\* the call is over and its frame is gone: the result record is not stored,
\* and whatever file the call left behind no longer belongs to a live call
Disown(i) ==
    [p \in DOMAIN fs |-> IF fs[p].owner = i THEN [fs[p] EXCEPT !.owner = NoOwner]
                         ELSE fs[p]]

Quiescent ==
    /\ \A j \in Invocations : inv[j].pc = "idle"
    /\ http.pc = "idle"
    /\ main.pc = "idle"

\* a direct call of transcribe; the platform hands a container one input at a
\* time, so the call starts when no other use of the temp directory is under way
TranscribeCall(i) ==
    /\ Quiescent
    /\ \E audio_bytes \in AudioPayloads, arg_language \in Languages \cup {NotPassed} :
          Enter(i, "direct", audio_bytes, arg_language)
    /\ UNCHANGED <<fs, http, main, resident, warmups, warmup_returns>>

\* a direct call of transcribe while other calls use the same temp directory
TranscribeCallShared(i) ==
    /\ inv[i].pc = "idle"
    /\ \E audio_bytes \in AudioPayloads, arg_language \in Languages \cup {NotPassed} :
          Enter(i, "direct", audio_bytes, arg_language)
    /\ UNCHANGED <<fs, http, main, resident, warmups, warmup_returns>>

\* the caller of a direct call has taken the record or the exception
Discard(i) ==
    /\ Finished(i)
    /\ inv[i].via = "direct"
    /\ inv' = [inv EXCEPT ![i] = IdleInvocation]
    /\ fs' = Disown(i)
    /\ UNCHANGED <<http, main, resident, warmups, warmup_returns>>

----------------------------------------------------------------------------
(* warmup *)

\* variant: a different record once the model is already resident
WarmupResultResident ==
    IF resident THEN [status |-> "already warm", model |-> "parakeet-tdt-0.6b-v2"]
    ELSE WarmupStatus

\* return {"status": "warm", "model": "parakeet-tdt-0.6b-v2"}
WarmupResult == WarmupStatus

Counted(n) == IF n < MaxWarmups THEN n + 1 ELSE MaxWarmups

\* the body of warmup: from_pretrained either loads the model or raises
WarmupBody(ok) ==
    /\ resident' = (resident \/ ok)
    /\ warmups' = Counted(warmups)
    /\ warmup_returns' = IF ok THEN warmup_returns \cup {WarmupResult}
                         ELSE warmup_returns

\* a direct call of warmup
Warmup ==
    /\ \E ok \in LoadOutcomes : WarmupBody(ok)
    /\ UNCHANGED <<fs, inv, http, main>>

----------------------------------------------------------------------------
(* transcribe_http *)

IdleHttp ==
    [pc |-> "idle", audio |-> "", callee |-> 0, calls |-> 0,
     response |-> Unbound, exc |-> NoException]

\* transcribe.local(audio): the language argument is not passed
HttpLanguageArg == NotPassed

\* variant: the adapter drops the language field
HttpResponseTextOnly(record) == [text |-> record.text]

\* what the adapter hands back when the orchestrator returned a record
HttpResponse(record) == record

\* POST with the raw audio bytes as body
HttpRequest(i) ==
    /\ Quiescent
    /\ \E audio \in AudioPayloads :
          /\ http' = [IdleHttp EXCEPT !.pc = "called", !.audio = audio,
                                      !.callee = i, !.calls = 1]
          /\ Enter(i, "http", audio, HttpLanguageArg)
    /\ UNCHANGED <<fs, main, resident, warmups, warmup_returns>>

\* return transcribe.local(audio): the record, or the exception, passes through
HttpReturn ==
    /\ http.pc = "called"
    /\ Finished(http.callee)
    /\ http' = IF inv[http.callee].pc = "returned"
               THEN [http EXCEPT !.pc = "responded",
                                 !.response = HttpResponse(inv[http.callee].result)]
               ELSE [http EXCEPT !.pc = "failed", !.exc = inv[http.callee].exc]
    /\ UNCHANGED <<fs, inv, main, resident, warmups, warmup_returns>>

\* the response has been sent
HttpDone ==
    /\ http.pc \in {"responded", "failed"}
    /\ http' = IdleHttp
    /\ inv' = [inv EXCEPT ![http.callee] = IdleInvocation]
    /\ fs' = Disown(http.callee)
    /\ UNCHANGED <<main, resident, warmups, warmup_returns>>

----------------------------------------------------------------------------
(* main *)

IdleMain ==
    [pc |-> "idle", argv |-> <<>>, audio_file |-> "", audio_bytes |-> "",
     callee |-> 0, result |-> Unbound, printed |-> "", exc |-> NoException,
     warmup_calls |-> 0, transcribe_calls |-> 0]

\* variant: the test on the argument count is off by one
MainBranchOffByOne(argv) == IF Len(argv) > 0 THEN "open" ELSE "warmup"

\* if len(sys.argv) > 1: audio_file = sys.argv[1]  else: the warmup path
MainBranch(argv) == IF Len(argv) > 1 THEN "open" ELSE "warmup"

\* open(audio_file, "rb"): a path that names no readable file raises
Readable(audio_file) == audio_file \in DOMAIN LocalFiles

MainStart ==
    /\ Quiescent
    /\ \E argv \in ArgvChoices :
          main' = [IdleMain EXCEPT !.pc = MainBranch(argv), !.argv = argv,
                                   !.audio_file = IF Len(argv) > 1 THEN argv[2] ELSE ""]
    /\ UNCHANGED <<fs, inv, http, resident, warmups, warmup_returns>>

\* result = warmup.remote(); print(...); return
MainWarmup ==
    /\ main.pc = "warmup"
    /\ \E ok \in LoadOutcomes :
          /\ WarmupBody(ok)
          /\ main' = IF ok
                     THEN [main EXCEPT !.pc = "done", !.result = WarmupResult,
                                       !.printed = "Warmup result",
                                       !.warmup_calls = @ + 1]
                     ELSE [main EXCEPT !.pc = "raised", !.exc = "ModelLoadError",
                                       !.warmup_calls = @ + 1]
    /\ UNCHANGED <<fs, inv, http>>

\* with open(audio_file, "rb") as f: audio_bytes = f.read()
MainOpen ==
    /\ main.pc = "open"
    /\ main' = IF Readable(main.audio_file)
               THEN [main EXCEPT !.pc = "call",
                                 !.audio_bytes = LocalFiles[main.audio_file]]
               ELSE [main EXCEPT !.pc = "raised", !.exc = "FileNotFoundError"]
    /\ UNCHANGED <<fs, inv, http, resident, warmups, warmup_returns>>

\* result = transcribe.remote(audio_bytes)
MainCall(i) ==
    /\ main.pc = "call"
    /\ inv[i].pc = "idle"
    /\ main' = [main EXCEPT !.pc = "wait", !.callee = i, !.transcribe_calls = @ + 1]
    /\ Enter(i, "main", main.audio_bytes, NotPassed)
    /\ UNCHANGED <<fs, http, resident, warmups, warmup_returns>>

\* print(f"Transcription: {result['text']}"), or the exception ends the run
MainPrint ==
    /\ main.pc = "wait"
    /\ Finished(main.callee)
    /\ main' = IF inv[main.callee].pc = "returned"
               THEN [main EXCEPT !.pc = "done", !.result = inv[main.callee].result,
                                 !.printed = "Transcription"]
               ELSE [main EXCEPT !.pc = "raised", !.exc = inv[main.callee].exc]
    /\ UNCHANGED <<fs, inv, http, resident, warmups, warmup_returns>>

\* the process has exited
MainExit ==
    /\ main.pc \in {"done", "raised"}
    /\ main' = IdleMain
    /\ inv' = IF main.callee = 0 THEN inv
              ELSE [inv EXCEPT ![main.callee] = IdleInvocation]
    /\ fs' = IF main.callee = 0 THEN fs ELSE Disown(main.callee)
    /\ UNCHANGED <<http, resident, warmups, warmup_returns>>

----------------------------------------------------------------------------
(* Specifications *)

Init ==
    /\ fs = [p \in Paths |-> NoFile]
    /\ inv = [i \in Invocations |-> IdleInvocation]
    /\ http = IdleHttp
    /\ main = IdleMain
    /\ resident = FALSE
    /\ warmups = 0
    /\ warmup_returns = {}

\* the deployed service: one input at a time per container
Next ==
    \/ \E i \in Invocations :
          \/ TranscribeCall(i)
          \/ Mkstemp(i)
          \/ Write(i)
          \/ Ffmpeg(i)
          \/ Load(i)
          \/ Infer(i)
          \/ ExistsInput(i)
          \/ UnlinkInput(i)
          \/ ExistsWav(i)
          \/ UnlinkWav(i)
          \/ Discard(i)
          \/ HttpRequest(i)
          \/ MainCall(i)
    \/ Warmup
    \/ HttpReturn
    \/ HttpDone
    \/ MainStart
    \/ MainWarmup
    \/ MainOpen
    \/ MainPrint
    \/ MainExit

Spec == Init /\ [][Next]_vars

\* concurrent direct calls of transcribe that share one temp directory
NextShared ==
    \E i \in Invocations :
       \/ TranscribeCallShared(i)
       \/ Mkstemp(i)
       \/ Write(i)
       \/ Ffmpeg(i)
       \/ Load(i)
       \/ Infer(i)
       \/ ExistsInput(i)
       \/ UnlinkInput(i)
       \/ ExistsWav(i)
       \/ UnlinkWav(i)
       \/ Discard(i)

SpecShared == Init /\ [][NextShared]_vars

----------------------------------------------------------------------------
(* Properties *)

FilesOf(i) == {p \in DOMAIN fs : fs[p].exists /\ fs[p].owner = i}

CleanupPcs == {"exists_input", "unlink_input", "exists_wav", "unlink_wav"}

\* C1: once a call of transcribe has returned or raised, on whatever exit
\* path, none of the temporary files it created exists any more.
C1_NoTempFilesAfterExit ==
    \A i \in Invocations : Finished(i) => FilesOf(i) = {}

\* C2: a non-zero exit of ffmpeg (as for a zero-byte payload) makes the call
\* fail with the conversion error without from_pretrained or model.transcribe
\* ever being executed; a model call is only ever made after a conversion that
\* succeeded.
C2_ConversionBeforeModel ==
    \A i \in Invocations :
       /\ (inv[i].load_calls > 0 \/ inv[i].infer_calls > 0)
             => (inv[i].ffmpeg_runs = 1 /\ inv[i].returncode = 0)
       /\ inv[i].returncode \notin {-1, 0}
             => /\ inv[i].load_calls = 0
                /\ inv[i].infer_calls = 0
                /\ inv[i].pc \in CleanupPcs \cup {"raised"}
                /\ inv[i].exc = "CalledProcessError"
                /\ inv[i].result = Unbound
       /\ (inv[i].audio_bytes = "" /\ inv[i].ffmpeg_runs > 0)
             => inv[i].returncode \notin {-1, 0}

C2_Witness ==
    \E i \in Invocations :
       /\ inv[i].pc = "raised"
       /\ inv[i].audio_bytes = ""
       /\ inv[i].returncode = 1
       /\ inv[i].exc = "CalledProcessError"

\* the paths a running call will still read, write or delete
InUse(i) ==
    CASE inv[i].pc = "write" -> {inv[i].input_file}
      [] inv[i].pc \in {"ffmpeg", "load", "infer", "exists_input", "unlink_input"}
            -> {inv[i].input_path, inv[i].wav_path}
      [] inv[i].pc \in {"exists_wav", "unlink_wav"} -> {inv[i].wav_path}
      [] OTHER -> {}

\* C3: concurrent calls of transcribe in one temp directory never have a
\* temporary path in common while both are running, and a call's converted
\* file is never overwritten or deleted by another call before it is read.
C3_NoSharedTempPaths ==
    /\ \A i, j \in Invocations : i # j => InUse(i) \cap InUse(j) = {}
    /\ \A i \in Invocations :
          inv[i].pc \in {"load", "infer"}
             => (PathExists(inv[i].wav_path) /\ fs[inv[i].wav_path].owner = i)

\* C4: when the conversion succeeded and model.transcribe returned an empty
\* list, the call returns normally with text "" and the requested language;
\* no exception is pending or raised on that path.
C4_EmptyTranscriptionIsValid ==
    \A i \in Invocations :
       (inv[i].transcribed /\ inv[i].transcriptions = <<>>)
          => /\ inv[i].returncode = 0
             /\ inv[i].exc = NoException
             /\ inv[i].pc # "raised"
             /\ inv[i].pc = "returned"
                   => inv[i].result =
                         [text |-> "",
                          language |-> IF inv[i].arg_language = NotPassed THEN "en"
                                       ELSE inv[i].arg_language]

C4_Witness ==
    \E i \in Invocations :
       /\ inv[i].pc = "returned"
       /\ inv[i].transcribed
       /\ inv[i].transcriptions = <<>>
       /\ inv[i].arg_language = "fr"

\* C5: one call starts ffmpeg at most once and calls model.transcribe at most
\* once; after a failed conversion or a failed inference nothing is retried.
C5_SingleAttempt ==
    \A i \in Invocations :
       /\ inv[i].ffmpeg_runs <= 1
       /\ inv[i].infer_calls <= 1
       /\ inv[i].returncode \notin {-1, 0}
             => (inv[i].ffmpeg_runs = 1 /\ inv[i].infer_calls = 0)
       /\ inv[i].exc = "InferenceError"
             => (inv[i].ffmpeg_runs = 1 /\ inv[i].infer_calls = 1)

C5_Witness ==
    \E i \in Invocations :
       /\ inv[i].pc = "raised"
       /\ inv[i].exc = "InferenceError"
       /\ inv[i].ffmpeg_runs = 1
       /\ inv[i].infer_calls = 1

\* a step of the conversion, the model load or the inference has failed
StepFailed(i) ==
    \/ inv[i].returncode \notin {-1, 0}
    \/ (inv[i].load_calls > 0 /\ ~inv[i].model)
    \/ (inv[i].infer_calls > 0 /\ ~inv[i].transcribed)

\* C6: a failed conversion, model load or inference ends the call with a
\* raised failure and no record; a returned record comes from a call in which
\* conversion, load and inference all succeeded.
C6_AllOrNothing ==
    \A i \in Invocations :
       /\ inv[i].pc = "returned"
             => /\ inv[i].returncode = 0
                /\ inv[i].model
                /\ inv[i].transcribed
                /\ inv[i].exc = NoException
                /\ inv[i].result # Unbound
                /\ inv[i].result = inv[i].retval
       /\ inv[i].pc # "returned" => inv[i].result = Unbound
       /\ (Finished(i) /\ StepFailed(i))
             => (inv[i].pc = "raised" /\ inv[i].exc # NoException)

C6_Witness ==
    \E i \in Invocations :
       /\ inv[i].pc = "raised"
       /\ inv[i].exc = "ModelLoadError"
       /\ inv[i].returncode = 0

\* the failure a call ends with, as its own steps determine it
OwnFailure(i) ==
    IF inv[i].input_file = Unbound THEN "FileExistsError"
    ELSE IF inv[i].input_path = Unbound THEN "OSError"
    ELSE IF inv[i].returncode # 0 THEN "CalledProcessError"
    ELSE IF ~inv[i].model THEN "ModelLoadError"
    ELSE "InferenceError"

\* C7: the record or failure a call of transcribe ends with is determined by
\* its arguments and by what ffmpeg and the model answered in that call,
\* whatever the number of warmup calls before it; and every warmup call that
\* returns, returns the same status record.
C7_WarmupDoesNotChangeResult ==
    /\ \A r \in warmup_returns :
          r = [status |-> "warm", model |-> "parakeet-tdt-0.6b-v2"]
    /\ \A i \in Invocations :
          /\ inv[i].pc = "returned"
                => inv[i].result =
                      [text |-> IF inv[i].transcriptions = <<>> THEN ""
                                ELSE inv[i].transcriptions[1],
                       language |-> inv[i].language]
          /\ inv[i].pc = "raised" => inv[i].exc = OwnFailure(i)

C7_Witness ==
    /\ warmup_returns # {}
    /\ resident
    /\ \E i \in Invocations :
          /\ inv[i].pc = "returned"
          /\ inv[i].warm_seen >= 2
          /\ inv[i].result.text = "five"

\* C8: a request to transcribe_http ends as the one call transcribe(body)
\* with the default language "en" ends: the same record on success, the same
\* failure otherwise, and the files of that call cleaned up as transcribe
\* cleans them up.
C8_HttpDelegates ==
    /\ http.pc # "idle"
          => /\ http.calls = 1
             /\ Cardinality({i \in Invocations : inv[i].via = "http"}) = 1
             /\ inv[http.callee].via = "http"
             /\ inv[http.callee].audio_bytes = http.audio
             /\ inv[http.callee].language = "en"
    /\ http.pc = "responded"
          => /\ inv[http.callee].pc = "returned"
             /\ http.response = inv[http.callee].result
             /\ http.response.language = "en"
    /\ http.pc = "failed"
          => /\ inv[http.callee].pc = "raised"
             /\ http.exc = inv[http.callee].exc
             /\ http.response = Unbound
    /\ (http.pc \in {"responded", "failed"} /\ inv[http.callee].input_path # Unbound)
          => FilesOf(http.callee) = {}

C8_Witness ==
    /\ http.pc = "responded"
    /\ http.audio = "RIFF"
    /\ http.response = [text |-> "five", language |-> "en"]

MainOver == main.pc \in {"done", "raised"}

\* C9 as stated: a run of main without a path argument calls warmup once and
\* transcribe never; a run with a path calls transcribe once, on the bytes of
\* that file, and warmup never.
C9_MainExactlyOnePath ==
    MainOver =>
       IF Len(main.argv) > 1
       THEN /\ main.transcribe_calls = 1
            /\ main.warmup_calls = 0
            /\ inv[main.callee].audio_bytes = LocalFiles[main.argv[2]]
       ELSE /\ main.warmup_calls = 1
            /\ main.transcribe_calls = 0

\* C9, amended: a run of main without a path argument calls warmup once and
\* transcribe never; a run with a path never calls warmup and calls
\* transcribe once, on the bytes of that file, when the file can be read, and
\* not at all when opening it fails.
C9_MainOnePathWhenReadable ==
    /\ (main.warmup_calls = 0 \/ main.transcribe_calls = 0)
    /\ MainOver =>
          IF Len(main.argv) > 1
          THEN /\ main.warmup_calls = 0
               /\ IF main.argv[2] \in DOMAIN LocalFiles
                  THEN /\ main.transcribe_calls = 1
                       /\ inv[main.callee].via = "main"
                       /\ inv[main.callee].audio_bytes = LocalFiles[main.argv[2]]
                  ELSE /\ main.transcribe_calls = 0
                       /\ main.pc = "raised"
                       /\ main.exc = "FileNotFoundError"
          ELSE /\ main.warmup_calls = 1
               /\ main.transcribe_calls = 0

C9_Witness ==
    /\ main.pc = "done"
    /\ main.argv = <<"main.py", "clip">>
    /\ main.transcribe_calls = 1
    /\ main.printed = "Transcription"

\* C10: a record that transcribe returns has exactly the fields text and
\* language; text is the first element of the list model.transcribe returned
\* when that list is not empty, and language is the caller's language code,
\* or "en" when none was passed.
C10_ResultShape ==
    \A i \in Invocations :
       inv[i].pc = "returned"
          => /\ DOMAIN inv[i].result = {"text", "language"}
             /\ inv[i].transcriptions # <<>>
                   => inv[i].result.text = Head(inv[i].transcriptions)
             /\ inv[i].result.language =
                   IF inv[i].arg_language = NotPassed THEN "en"
                   ELSE inv[i].arg_language

C10_Witness ==
    \E i \in Invocations :
       /\ inv[i].pc = "returned"
       /\ inv[i].transcriptions = <<"five", "six">>
       /\ inv[i].arg_language = "fr"
       /\ inv[i].result = [text |-> "five", language |-> "fr"]

====
